---- MODULE Spec2Model ----
(***************************************************************************)
(* The offline entry queue of the Legal Time Tracker (static/offline.js):  *)
(* the OfflineManager's in-memory queue, the copy it keeps in localStorage *)
(* under 'pendingEntries', and the drain passes (syncPendingEntries) that  *)
(* POST the queue to the save endpoint.                                    *)
(*                                                                         *)
(* The page runs on one event loop: every action below is one task of it   *)
(* (an event handler, or the continuation of an async function from one    *)
(* await to the next).  Arrays and entry objects are heap objects with     *)
(* identity: a drain pass iterates the array that this.pendingEntries      *)
(* referred to when its loop began, and sees the synced flags other passes *)
(* put on the shared entry objects.                                        *)
(***************************************************************************)
EXTENDS Integers, Sequences, FiniteSets, TLC

\* ------------------------------------------------------------------ bounds
\* Number of form submissions of a behaviour.
MaxEntries == 3
\* Largest reading of the clock (Date.now()).
MaxClock == 1
\* Number of drain passes that may be suspended at an await at once.
MaxPasses == 2
\* Number of online form submissions that may be awaiting their response.
MaxForms == 1
\* The endpoint's count of accepted POSTs per entry saturates here.
MaxCount == 2
\* Number of connectivity signals the history keeps.
MaxSignals == 3
\* Number of form submissions of a behaviour of the document.
MaxShown == 2
\* Largest reading of the stopwatch, in seconds.
MaxSecs == 3
\* Largest threshold the server renders into the stopwatch script.
MaxStopMin == 2
\* Number of interval timers the stopwatch sets in a behaviour.
MaxStarts == 3
\* Number of times the description prompt is answered at one Stop.
MaxPrompts == 2

Keys == 1..MaxEntries
Passes == 1..MaxPasses
ArrRefs == 1..(MaxPasses + 1)

VARIABLES
  now,             \* the clock Date.now() reads
  isOnline,        \* this.isOnline
  storage,         \* localStorage['pendingEntries']
  pendingEntries,  \* this.pendingEntries: a reference to an array, or a non-array
  heap,            \* the arrays: reference -> sequence of entry objects
  obj,             \* the entry objects, named by the form content they carry
  pass,            \* the calls of syncPendingEntries suspended at their await
  forms,           \* the online form submissions awaiting their response
  submitted,       \* number of form submissions so far
  appended,        \* history: the entries saveOfflineEntry has queued
  accepted,        \* history: per entry, the 2xx answers of the save endpoint
  lateRequest,     \* history: entries POSTed again after a 2xx answer for them
  uncaught,        \* an exception escaped a handler since the page loaded
  persisted,       \* history: the entry objects given to the last setItem
  event,           \* history: what the last task did
  path,            \* window.location.pathname of the page
  offlineIndicator, \* the element 'offline-indicator' of the document
  syncIndicator,   \* the element 'sync-indicator' of the document
  toast,           \* the toast the last task showed
  reload           \* the last task scheduled window.location.reload()

\* The variables of the queue and its drain passes.
queueVars == <<now, isOnline, storage, pendingEntries, heap, obj, pass, forms,
               submitted, appended, accepted, lateRequest, uncaught, persisted,
               event>>

\* The variables of the page's document.
uiVars == <<path, offlineIndicator, syncIndicator, toast, reload>>

pageVars == <<queueVars, uiVars>>

\* ------------------------------------------------------------- values
\* What the hours field of the form may hold: a decimal number, or text
\* that is no number.
FormHours == {"1.5", "abc"}

\* The submissions whose hours field holds a decimal number.
NumericHours == {"1.5"}

\* parseFloat(formData.get('hours') || '0')
ParseFloat(text) ==
  IF text = "" THEN "0" ELSE IF text = "abc" THEN "NaN" ELSE text

\* `offline_${timestamp}`: the id is the clock reading behind a fixed prefix.
EntryId(timestamp) == timestamp

\* The entry object saveOfflineEntry builds.  key stands for the text fields
\* of the form (client, matter, date_of_work, timekeeper, desc); each
\* submission carries a different one.
NewEntry(key, hours, timestamp) ==
  [key |-> key, hours |-> hours, id |-> EntryId(timestamp),
   timestamp |-> timestamp, synced |-> FALSE]

\* JSON.stringify of one field value: NaN is written as null.
StringifyNumber(v) == IF v = "NaN" THEN "null" ELSE v

StringifyEntry(e) ==
  [key |-> e.key, hours |-> StringifyNumber(e.hours), id |-> e.id,
   timestamp |-> e.timestamp, synced |-> e.synced]

\* JSON.stringify(this.pendingEntries) for an array of entry objects.
Stringify(entries) ==
  [kind |-> "array", items |-> [i \in 1..Len(entries) |-> StringifyEntry(entries[i])]]

\* The other values localStorage may hold under the key: nothing (getItem
\* returns null), the empty string, text that is not JSON, the JSON text
\* "null", JSON text of a value that is no array ("{}", "5").
Stored(kind) == [kind |-> kind, items |-> <<>>]

InitialStorage ==
  {Stored("absent"), Stored("empty"), Stored("garbage"), Stored("null"),
   Stored("nonarray"), Stringify(<<>>)}

\* JSON.parse of one stored entry: every field comes back as written.
ParseEntry(item) ==
  [key |-> item.key, hours |-> item.hours, id |-> item.id,
   timestamp |-> item.timestamp, synced |-> item.synced]

\* The value of this.pendingEntries after loadPendingEntries, which starts
\* from the constructor's [].
\*   absent, empty: `if (stored)` is false
\*   garbage:       JSON.parse throws, the catch assigns []
\*   null:          JSON.parse gives null, reading its length for the log
\*                  line throws inside the try, the catch assigns []
\*   nonarray:      JSON.parse gives the value, its length is undefined,
\*                  nothing throws
LoadPendingEntries(stored) ==
  CASE stored.kind = "array" ->
         [kind |-> "array",
          items |-> [i \in 1..Len(stored.items) |-> ParseEntry(stored.items[i])]]
    [] stored.kind = "nonarray" -> [kind |-> "nonarray", items |-> <<>>]
    [] OTHER -> [kind |-> "array", items |-> <<>>]

\* ------------------------------------------------------------- helpers
Min(a, b) == IF a < b THEN a ELSE b

Range(f) == {f[i] : i \in DOMAIN f}

KeysOf(entries) == [i \in 1..Len(entries) |-> entries[i].key]

\* A pass record: where the call stands (pc, and the array and the position
\* its iterator holds), its successfulSyncs, and two histories: the entries
\* it has requested and the number of 2xx answers it has received.
IdlePass ==
  [pc |-> "idle", arr |-> 0, idx |-> 0, successfulSyncs |-> <<>>,
   requested |-> <<>>, accepts |-> 0]

Running == {p \in Passes : pass[p].pc = "await"}

\* What the last task did: op is "load", "save" (saveOfflineEntry ran),
\* "sync" (syncPendingEntries was called), "respond" (a pass resumed from
\* its await with the outcome, for the entry key) or "other".
Event(op, p, key, outcome) ==
  [op |-> op, pass |-> p, key |-> key, outcome |-> outcome]

\* The entry objects of an array, in the array's order.
Entries(keys, objects) == [i \in 1..Len(keys) |-> objects[keys[i]]]

\* ------------------------------------------------------- the indicators
\* An indicator element: whether it is in the document, whether it carries
\* the class 'show', and whether a timer set by a hide is due to remove it.
\* An element that was removed is never put back (show creates a new one),
\* so the timers left for it do nothing.
Absent == [present |-> FALSE, show |-> FALSE, timer |-> FALSE]

\* showOfflineIndicator / showSyncIndicator: create the element when
\* getElementById finds none, then add the class; a pending timer stays.
ShowIndicator(ind) ==
  IF ind.present THEN [ind EXCEPT !.show = TRUE]
  ELSE [present |-> TRUE, show |-> TRUE, timer |-> FALSE]

\* hideOfflineIndicator / hideSyncIndicator: when the element exists remove
\* the class and set the timer that removes the element 300 ms later.
HideIndicator(ind) ==
  IF ind.present THEN [ind EXCEPT !.show = FALSE, !.timer = TRUE] ELSE ind

\* The banner is on the screen.
Shown(ind) == ind.present /\ ind.show

\* The toasts: showOfflineSuccess, showSyncSuccess(count), none.
NoToast == [kind |-> "none", count |-> 0]

OfflineToast == [kind |-> "info", count |-> 0]

SyncToast(count) == [kind |-> "success", count |-> count]

\* The pages of the application the script runs on.
Paths == {"/entries", "/entry"}

\* A task that shows no toast and schedules no reload.
Quiet == toast' = NoToast /\ reload' = FALSE

\* ------------------------------------------------ the page's construction
\* constructor and init: this.pendingEntries = [], then loadPendingEntries.
\* The array the page starts with is array 1; no other array exists yet.
LoadedValue(stored) ==
  IF LoadPendingEntries(stored).kind = "array"
  THEN [kind |-> "array", ref |-> 1]
  ELSE [kind |-> "nonarray", ref |-> 0]

LoadedHeap(stored) ==
  [r \in ArrRefs |->
     IF r = 1 /\ LoadPendingEntries(stored).kind = "array"
     THEN KeysOf(LoadPendingEntries(stored).items) ELSE <<>>]

LoadedObjects(stored) ==
  LET items == LoadPendingEntries(stored).items
  IN [k \in Range(KeysOf(items)) |->
        items[CHOOSE i \in 1..Len(items) : items[i].key = k]]

\* updateUI reads this.pendingEntries.filter when the page has the element
\* 'pending-counter': on a value that is no array that call throws.
UpdateUIThrows(value, hasCounter) == hasCounter /\ value.kind # "array"

\* Neither the constructor nor init shows the offline indicator: updateUI
\* only switches the elements of class offline-only / online-only.
PageInit ==
  /\ now = 0
  /\ isOnline \in BOOLEAN
  /\ storage \in InitialStorage
  /\ pendingEntries = LoadedValue(storage)
  /\ heap = LoadedHeap(storage)
  /\ obj = LoadedObjects(storage)
  /\ pass = [p \in Passes |-> IdlePass]
  /\ forms = {}
  /\ submitted = 0
  /\ appended = {}
  /\ accepted = [k \in Keys |-> 0]
  /\ lateRequest = {}
  /\ uncaught \in {UpdateUIThrows(pendingEntries, h) : h \in BOOLEAN}
  /\ persisted = <<>>
  /\ event = Event("load", 0, 0, "none")
  /\ path \in Paths
  /\ offlineIndicator = Absent
  /\ syncIndicator = Absent
  /\ toast = NoToast
  /\ reload = FALSE

\* A page load (a reload, or a navigation to a page of the application): a
\* new script context, so the passes and form submissions suspended in the
\* old one never resume, and a new document; localStorage is kept.
PageLoad ==
  /\ \E online \in BOOLEAN : isOnline' = online
  /\ \E location \in Paths : path' = location
  /\ offlineIndicator' = Absent
  /\ syncIndicator' = Absent
  /\ Quiet
  /\ pendingEntries' = LoadedValue(storage)
  /\ heap' = LoadedHeap(storage)
  /\ obj' = LoadedObjects(storage)
  /\ pass' = [p \in Passes |-> IdlePass]
  /\ forms' = {}
  /\ \E h \in BOOLEAN : uncaught' = UpdateUIThrows(pendingEntries', h)
  /\ event' = Event("load", 0, 0, "none")
  /\ UNCHANGED <<now, storage, submitted, appended, accepted, lateRequest,
                 persisted>>

\* The timer set by hideOfflineIndicator fires: `indicator.remove()`.
OfflineIndicatorTimer ==
  /\ offlineIndicator.present /\ offlineIndicator.timer
  /\ offlineIndicator' = Absent
  /\ Quiet
  /\ event' = Event("other", 0, 0, "none")
  /\ UNCHANGED <<now, isOnline, storage, pendingEntries, heap, obj, pass,
                 forms, submitted, appended, accepted, lateRequest, uncaught,
                 persisted, path, syncIndicator>>

\* The timer set by hideSyncIndicator fires.
SyncIndicatorTimer ==
  /\ syncIndicator.present /\ syncIndicator.timer
  /\ syncIndicator' = Absent
  /\ Quiet
  /\ event' = Event("other", 0, 0, "none")
  /\ UNCHANGED <<now, isOnline, storage, pendingEntries, heap, obj, pass,
                 forms, submitted, appended, accepted, lateRequest, uncaught,
                 persisted, path, offlineIndicator>>

\* --------------------------------------------------------- saveOfflineEntry
\* Variant: setItem before the push.
SaveOfflineEntryStale(key, hours, t) ==
  /\ now' = t
  /\ IF pendingEntries.kind = "array"
     THEN LET a == pendingEntries.ref
              objects == [k \in DOMAIN obj \cup {key} |->
                            IF k = key THEN NewEntry(key, hours, t) ELSE obj[k]]
          IN /\ heap' = [heap EXCEPT ![a] = Append(heap[a], key)]
             /\ obj' = objects
             /\ storage' = Stringify(Entries(heap[a], objects))
             /\ persisted' = Entries(heap[a], objects)
             /\ appended' = appended \cup {key}
             /\ toast' = OfflineToast
             /\ UNCHANGED uncaught
     ELSE /\ uncaught' = TRUE
          /\ toast' = NoToast
          /\ UNCHANGED <<heap, obj, storage, persisted, appended>>
  /\ reload' = FALSE

\* Date.now() reads t; push on the array this.pendingEntries refers to, then
\* setItem of the whole array as it is, synced flags included, then the
\* toast of showOfflineSuccess.  On a value that is no array push is not a
\* function: the call throws before anything is stored or shown.
SaveOfflineEntry(key, hours, t) ==
  /\ now' = t
  /\ IF pendingEntries.kind = "array"
     THEN LET a == pendingEntries.ref
              pushed == Append(heap[a], key)
              objects == [k \in DOMAIN obj \cup {key} |->
                            IF k = key THEN NewEntry(key, hours, t) ELSE obj[k]]
          IN /\ heap' = [heap EXCEPT ![a] = pushed]
             /\ obj' = objects
             /\ storage' = Stringify(Entries(pushed, objects))
             /\ persisted' = Entries(pushed, objects)
             /\ appended' = appended \cup {key}
             /\ toast' = OfflineToast
             /\ UNCHANGED uncaught
     ELSE /\ uncaught' = TRUE
          /\ toast' = NoToast
          /\ UNCHANGED <<heap, obj, storage, persisted, appended>>
  /\ reload' = FALSE

\* ------------------------------------------------------ syncPendingEntries
\* Variant: the loop skips nothing.
SkipsNone(entry) == FALSE

\* `if (entry.synced) continue`
Skips(entry) == entry.synced

\* `response.ok`: the request was answered with a 2xx status.
ResponseOk(outcome) == outcome = "ok"

\* The catch around the request: fetch rejected, `break`.
Breaks(outcome) == outcome = "neterr"

\* The outcomes of one request: a 2xx answer, another answer, no answer.
Outcomes == {"ok", "rejected", "neterr"}

\* The environment: an answer arrives only while the browser is online (the
\* 'offline' event has not fired since); a request can fail at any time.
Arrives(outcome) == outcome = "neterr" \/ isOnline

\* Variant: the loop takes the newest entry first.
NextUnsyncedLast(keys, objects, from) ==
  LET todo == {j \in from..Len(keys) : ~objects[keys[j]].synced}
  IN IF todo = {} THEN 0 ELSE CHOOSE j \in todo : \A k \in todo : j >= k

\* The for...of loop from position `from` on: the array iterator walks the
\* array by index and reads its length at every step, so it reaches the
\* entries pushed since the loop began.  The position of the first entry it
\* does not skip, 0 when it runs off the end.
NextUnsynced(keys, objects, from) ==
  LET todo == {j \in from..Len(keys) : ~Skips(objects[keys[j]])}
  IN IF todo = {} THEN 0 ELSE CHOOSE j \in todo : \A k \in todo : j <= k

\* `this.pendingEntries.filter(entry => !entry.synced)`
Unsynced(keys, objects) == SelectSeq(keys, LAMBDA k : ~objects[k].synced)

\* filter builds a new array: a reference no suspended pass holds.
FreshArray(used) ==
  CHOOSE r \in ArrRefs \ used : \A x \in ArrRefs \ used : r <= x

\* The endpoint counts one more accepted POST for the entry.
CountAccepted(acc, key) == [acc EXCEPT ![key] = Min(@ + 1, MaxCount)]

\* Variant: the toast whatever the pass achieved, the reload on every page.
FinishLoud(p, objects, succ, ind) ==
  LET kept == Unsynced(heap[pendingEntries.ref], objects)
      used == {pass[q].arr : q \in Running \ {p}}
      r == FreshArray(used)
      heapAfter == [x \in ArrRefs |->
                      IF x = r THEN kept ELSE IF x \in used THEN heap[x] ELSE <<>>]
      liveKeys == UNION {Range(heapAfter[x]) : x \in ArrRefs}
  IN /\ pendingEntries' = [kind |-> "array", ref |-> r]
     /\ heap' = heapAfter
     /\ obj' = [k \in liveKeys |-> objects[k]]
     /\ storage' = Stringify(Entries(kept, objects))
     /\ persisted' = Entries(kept, objects)
     /\ pass' = [pass EXCEPT ![p] = IdlePass]
     /\ syncIndicator' = HideIndicator(ind)
     /\ toast' = SyncToast(Len(succ))
     /\ reload' = (Len(succ) > 0)
     /\ UNCHANGED lateRequest

\* Variant: the pass filters and stores the array it has iterated.
FinishOwnArray(p, objects, succ, ind) ==
  LET kept == Unsynced(heap[pass[p].arr], objects)
      used == {pass[q].arr : q \in Running \ {p}}
      r == FreshArray(used)
      heapAfter == [x \in ArrRefs |->
                      IF x = r THEN kept ELSE IF x \in used THEN heap[x] ELSE <<>>]
      liveKeys == UNION {Range(heapAfter[x]) : x \in ArrRefs}
  IN /\ pendingEntries' = [kind |-> "array", ref |-> r]
     /\ heap' = heapAfter
     /\ obj' = [k \in liveKeys |-> objects[k]]
     /\ storage' = Stringify(Entries(kept, objects))
     /\ persisted' = Entries(kept, objects)
     /\ pass' = [pass EXCEPT ![p] = IdlePass]
     /\ syncIndicator' = HideIndicator(ind)
     /\ toast' = IF Len(succ) > 0 THEN SyncToast(Len(succ)) ELSE NoToast
     /\ reload' = (Len(succ) > 0 /\ path = "/entries")
     /\ UNCHANGED lateRequest

\* After the loop: filter the array this.pendingEntries refers to NOW into a
\* new array, assign and store it; hide the sync indicator (ind is the
\* element as the task found or made it); when the pass had an entry
\* accepted show the toast and, on '/entries', schedule the reload.  The
\* arrays and entry objects nothing refers to any more are dropped.
Finish(p, objects, succ, ind) ==
  LET kept == Unsynced(heap[pendingEntries.ref], objects)
      used == {pass[q].arr : q \in Running \ {p}}
      r == FreshArray(used)
      heapAfter == [x \in ArrRefs |->
                      IF x = r THEN kept ELSE IF x \in used THEN heap[x] ELSE <<>>]
      liveKeys == UNION {Range(heapAfter[x]) : x \in ArrRefs}
  IN /\ pendingEntries' = [kind |-> "array", ref |-> r]
     /\ heap' = heapAfter
     /\ obj' = [k \in liveKeys |-> objects[k]]
     /\ storage' = Stringify(Entries(kept, objects))
     /\ persisted' = Entries(kept, objects)
     /\ pass' = [pass EXCEPT ![p] = IdlePass]
     /\ syncIndicator' = HideIndicator(ind)
     /\ toast' = IF Len(succ) > 0 THEN SyncToast(Len(succ)) ELSE NoToast
     /\ reload' = (Len(succ) > 0 /\ path = "/entries")
     /\ UNCHANGED lateRequest

\* The loop of pass p over array a from position `from` up to its next
\* await: the POST for the next entry it does not skip, or the end of the
\* loop.  acc is the endpoint's count as of now.
Loop(p, a, from, objects, acc, succ, req, ind) ==
  LET j == NextUnsynced(heap[a], objects, from)
  IN IF j # 0
     THEN /\ pass' = [pass EXCEPT ![p] =
                        [pc |-> "await", arr |-> a, idx |-> j,
                         successfulSyncs |-> succ,
                         requested |-> Append(req, heap[a][j]),
                         accepts |-> pass[p].accepts
                           + (IF ResponseOk(event'.outcome) THEN 1 ELSE 0)]]
          /\ obj' = objects
          /\ lateRequest' = IF acc[heap[a][j]] > 0
                            THEN lateRequest \cup {heap[a][j]} ELSE lateRequest
          /\ syncIndicator' = ind
          /\ Quiet
          /\ UNCHANGED <<pendingEntries, heap, storage, persisted>>
     ELSE Finish(p, objects, succ, ind)

\* Variant: no early return on an empty queue.
SyncPendingEntriesUnguarded ==
  /\ event' = Event("sync", 0, 0, "none")
  /\ UNCHANGED <<now, forms, submitted, appended, accepted, path>>
  /\ IF pendingEntries.kind # "array"
     THEN /\ uncaught' = TRUE
          /\ syncIndicator' = ShowIndicator(syncIndicator)
          /\ Quiet
          /\ UNCHANGED <<storage, pendingEntries, heap, obj, pass, lateRequest,
                         persisted>>
     ELSE /\ Passes \ Running # {}
          /\ LET p == CHOOSE q \in Passes \ Running : \A x \in Passes \ Running : q <= x
             IN Loop(p, pendingEntries.ref, 1, obj, accepted, <<>>, <<>>,
                     ShowIndicator(syncIndicator))
          /\ UNCHANGED uncaught

\* A call of syncPendingEntries, up to its first await.  On a value that is
\* no array length is undefined, not 0: the indicator is shown and for...of
\* throws.
SyncPendingEntries ==
  /\ event' = Event("sync", 0, 0, "none")
  /\ UNCHANGED <<now, forms, submitted, appended, accepted, path>>
  /\ IF pendingEntries.kind # "array"
     THEN /\ uncaught' = TRUE
          /\ syncIndicator' = ShowIndicator(syncIndicator)
          /\ Quiet
          /\ UNCHANGED <<storage, pendingEntries, heap, obj, pass, lateRequest,
                         persisted>>
     ELSE IF Len(heap[pendingEntries.ref]) = 0
     THEN /\ Quiet
          /\ UNCHANGED <<storage, pendingEntries, heap, obj, pass, lateRequest,
                         persisted, uncaught, syncIndicator>>
     ELSE /\ Passes \ Running # {}
          /\ LET p == CHOOSE q \in Passes \ Running : \A x \in Passes \ Running : q <= x
             IN Loop(p, pendingEntries.ref, 1, obj, accepted, <<>>, <<>>,
                     ShowIndicator(syncIndicator))
          /\ UNCHANGED uncaught

\* The request of pass p is answered, or fails: the pass resumes.
Respond(p, outcome) ==
  /\ pass[p].pc = "await"
  /\ Arrives(outcome)
  /\ LET a == pass[p].arr
         key == heap[a][pass[p].idx]
         ok == ResponseOk(outcome)
         objects == IF ok THEN [obj EXCEPT ![key].synced = TRUE] ELSE obj
         succ == IF ok THEN Append(pass[p].successfulSyncs, key)
                 ELSE pass[p].successfulSyncs
         acc == IF ok THEN CountAccepted(accepted, key) ELSE accepted
     IN /\ accepted' = acc
        /\ event' = Event("respond", p, key, outcome)
        /\ IF Breaks(outcome)
           THEN Finish(p, objects, succ, syncIndicator)
           ELSE Loop(p, a, pass[p].idx + 1, objects, acc, succ,
                     pass[p].requested, syncIndicator)
  /\ UNCHANGED <<now, isOnline, forms, submitted, appended, uncaught, path,
                 offlineIndicator>>

\* ------------------------------------------------------------ the handlers
\* Variant: the handler leaves the drain to the manual-sync button.
HandleOnlineNoDrain ==
  /\ ~isOnline
  /\ isOnline' = TRUE
  /\ offlineIndicator' = HideIndicator(offlineIndicator)
  /\ Quiet
  /\ event' = Event("other", 0, 0, "none")
  /\ UNCHANGED <<now, storage, pendingEntries, heap, obj, pass, forms,
                 submitted, appended, accepted, lateRequest, uncaught,
                 persisted, path, syncIndicator>>

\* The 'online' event: the environment's connectivity came back.
HandleOnline ==
  /\ ~isOnline
  /\ isOnline' = TRUE
  /\ offlineIndicator' = HideIndicator(offlineIndicator)
  /\ SyncPendingEntries

\* The 'offline' event.
HandleOffline ==
  /\ isOnline
  /\ isOnline' = FALSE
  /\ offlineIndicator' = ShowIndicator(offlineIndicator)
  /\ Quiet
  /\ event' = Event("other", 0, 0, "none")
  /\ UNCHANGED <<now, storage, pendingEntries, heap, obj, pass, forms,
                 submitted, appended, accepted, lateRequest, uncaught,
                 persisted, path, syncIndicator>>

\* A click on 'manual-sync'.
ManualSync ==
  /\ UNCHANGED <<isOnline, offlineIndicator>>
  /\ SyncPendingEntries

\* A submit of an enhanced form while this.isOnline: the form is POSTed and
\* the handler awaits the answer.
SubmitOnline(text) ==
  /\ isOnline
  /\ submitted < MaxEntries
  /\ Cardinality(forms) < MaxForms
  /\ submitted' = submitted + 1
  /\ forms' = forms \cup {[key |-> submitted + 1, hours |-> ParseFloat(text)]}
  /\ event' = Event("other", 0, 0, "none")
  /\ Quiet
  /\ UNCHANGED <<now, isOnline, storage, pendingEntries, heap, obj, pass,
                 appended, accepted, lateRequest, uncaught, persisted, path,
                 offlineIndicator, syncIndicator>>

\* The answer to a POSTed form: on a 2xx the page navigates away, otherwise
\* (another status, or no answer) the entry is queued.
FormResponse(f, outcome, t) ==
  /\ f \in forms
  /\ Arrives(outcome)
  /\ forms' = forms \ {f}
  /\ IF ResponseOk(outcome)
     THEN /\ event' = Event("other", 0, 0, "none")
          /\ Quiet
          /\ UNCHANGED <<now, heap, obj, storage, appended, uncaught, persisted>>
     ELSE /\ event' = Event("save", 0, f.key, "none")
          /\ SaveOfflineEntry(f.key, f.hours, t)
  /\ UNCHANGED <<isOnline, pendingEntries, pass, submitted, accepted,
                 lateRequest, path, offlineIndicator, syncIndicator>>

\* A submit of an enhanced form while not this.isOnline: the entry is queued
\* at once.
SubmitOffline(text, t) ==
  /\ ~isOnline
  /\ submitted < MaxEntries
  /\ submitted' = submitted + 1
  /\ event' = Event("save", 0, submitted + 1, "none")
  /\ SaveOfflineEntry(submitted + 1, ParseFloat(text), t)
  /\ UNCHANGED <<isOnline, pendingEntries, pass, forms, accepted, lateRequest,
                 path, offlineIndicator, syncIndicator>>

\* --------------------------------------------------- the service worker
\* The worker script: its cache buckets and the handlers of its lifecycle
\* events install, activate, fetch and sync.
VARIABLES
  worker,          \* the state of the worker: "parsed", "installing",
                   \* "installed", "activating", "activated", "redundant"
  caches,          \* CacheStorage: the buckets in the order of their creation
  existing,        \* history: the names caches.keys() gave the activate handler
  deleting,        \* the calls of caches.delete that have not resolved yet
  skippedWaiting,  \* self.skipWaiting() was invoked
  fetching,        \* the intercepted requests forwarded to the network
  response,        \* what the last task gave to event.respondWith
  backgroundSync   \* the last task ran syncOfflineEntries

workerVars == <<worker, caches, existing, deleting, skippedWaiting, fetching,
                response, backgroundSync>>

\* history: the latest connectivity signals the page handled since its load,
\* each with the number of calls of syncPendingEntries its handler made.
VARIABLE signals

\* The stopwatch of static/app.js (the script of '#sw-start', '#sw-pause',
\* '#sw-stop', '#sw-help', '#sw-display' and '#sw-form').
VARIABLES
  STOP_MIN_SECONDS, \* the threshold the server rendered into the script
  running,         \* `let running`
  secs,            \* `let secs`
  tickHandle,      \* `let tickHandle`: 0 stands for null
  intervals,       \* the interval timers set and not cleared, by their handle
  handles,         \* the number of calls of setInterval so far
  swEvent          \* history: what the last task of the stopwatch did

swVars == <<STOP_MIN_SECONDS, running, secs, tickHandle, intervals, handles,
            swEvent>>

vars == <<pageVars, workerVars, signals, swVars>>

CACHE_NAME == "legal-time-tracker-v1"

urlsToCache == {"/", "/entry", "/entries", "/options", "/static/style.css"}

\* The name of a bucket an earlier version of the worker left behind.
OldName == "legal-time-tracker-v0"

\* What a bucket found at startup may hold.
BucketContents == {{}, {"/"}, {"/reports"}, urlsToCache}

\* The buckets found at startup: none, an old one, the current one, or both
\* in either order of creation.
InitialCaches ==
  LET bucket(n) == {[name |-> n, urls |-> u] : u \in BucketContents}
  IN {<<>>}
     \cup {<<b>> : b \in bucket(OldName) \cup bucket(CACHE_NAME)}
     \cup {<<b, c>> : b \in bucket(OldName), c \in bucket(CACHE_NAME)}
     \cup {<<c, b>> : b \in bucket(OldName), c \in bucket(CACHE_NAME)}

\* The requests the worker intercepts, each with its destination.
Requests ==
  {[url |-> "/", destination |-> "document"],
   [url |-> "/reports", destination |-> "document"],
   [url |-> "/static/style.css", destination |-> "style"],
   [url |-> "/api/quick-entry", destination |-> ""]}

\* The tags a sync event may carry.
Tags == {"background-sync", "periodic"}

Names(buckets) == {buckets[i].name : i \in DOMAIN buckets}

\* caches.open(name): the bucket is created at the end when it is missing.
Open(buckets, name) ==
  IF name \in Names(buckets) THEN buckets
  ELSE Append(buckets, [name |-> name, urls |-> {}])

\* cache.addAll(urls) on the bucket of the name.
AddAll(buckets, name, urls) ==
  [i \in DOMAIN buckets |->
     IF buckets[i].name = name
     THEN [buckets[i] EXCEPT !.urls = @ \cup urls] ELSE buckets[i]]

\* caches.delete(name)
Delete(buckets, name) == SelectSeq(buckets, LAMBDA b : b.name # name)

NoResponse == [kind |-> "none", url |-> "", bucket |-> ""]

\* caches.match(url): the entry of the first bucket, in the order of
\* creation, that holds the url; undefined when no bucket does.
Match(buckets, url) ==
  LET hits == {i \in DOMAIN buckets : url \in buckets[i].urls}
  IN IF hits = {} THEN NoResponse
     ELSE LET i == CHOOSE h \in hits : \A x \in hits : h <= x
          IN [kind |-> "cached", url |-> url, bucket |-> buckets[i].name]

\* The response fetch(event.request) resolves with.
FromNetwork(request) == [kind |-> "network", url |-> request.url, bucket |-> ""]

\* What a task gives to event.respondWith: nothing; or, for the request, a
\* value, with what became of the request on the network ("unused" when it
\* was not forwarded, else "ok" or "failed").
NoAnswer == [request |-> "none", value |-> NoResponse, network |-> "unused"]

Answer(request, value, network) ==
  [request |-> request.url, value |-> value, network |-> network]

WorkerInit ==
  /\ worker = "parsed"
  /\ caches \in InitialCaches
  /\ existing = {}
  /\ deleting = {}
  /\ skippedWaiting = FALSE
  /\ fetching = {}
  /\ response = NoAnswer
  /\ backgroundSync = FALSE

\* A task of the worker shows nothing of the fetch and sync handlers.
Silent ==
  /\ response' = NoAnswer
  /\ backgroundSync' = FALSE

\* install: caches.open(CACHE_NAME) resolves.
InstallOpen ==
  /\ worker = "parsed"
  /\ worker' = "installing"
  /\ caches' = Open(caches, CACHE_NAME)
  /\ Silent
  /\ UNCHANGED <<existing, deleting, skippedWaiting, fetching>>

\* Variant: skipWaiting whatever became of addAll.
InstallAddAllEager(ok) ==
  /\ worker = "installing"
  /\ IF ok
     THEN /\ caches' = AddAll(caches, CACHE_NAME, urlsToCache)
          /\ worker' = "installed"
     ELSE /\ worker' = "redundant"
          /\ UNCHANGED caches
  /\ skippedWaiting' = TRUE
  /\ Silent
  /\ UNCHANGED <<existing, deleting, fetching>>

\* install: cache.addAll(urlsToCache) resolves, having stored every url,
\* then skipWaiting; or it rejects, having stored none, and the install fails.
InstallAddAll(ok) ==
  /\ worker = "installing"
  /\ IF ok
     THEN /\ caches' = AddAll(caches, CACHE_NAME, urlsToCache)
          /\ skippedWaiting' = TRUE
          /\ worker' = "installed"
     ELSE /\ worker' = "redundant"
          /\ UNCHANGED <<caches, skippedWaiting>>
  /\ Silent
  /\ UNCHANGED <<existing, deleting, fetching>>

\* Variant: the comparison the other way round.
StaleInverted(cacheName) == cacheName = CACHE_NAME

\* `cacheName !== CACHE_NAME`
Stale(cacheName) == cacheName # CACHE_NAME

\* activate: caches.keys() resolves and the handler calls caches.delete for
\* every name that is not CACHE_NAME.
ActivateKeys ==
  /\ worker = "installed"
  /\ worker' = "activating"
  /\ existing' = Names(caches)
  /\ deleting' = {n \in Names(caches) : Stale(n)}
  /\ Silent
  /\ UNCHANGED <<caches, skippedWaiting, fetching>>

\* activate: one of the calls of caches.delete resolves.
ActivateDelete(name) ==
  /\ worker = "activating"
  /\ name \in deleting
  /\ caches' = Delete(caches, name)
  /\ deleting' = deleting \ {name}
  /\ Silent
  /\ UNCHANGED <<worker, existing, skippedWaiting, fetching>>

\* activate: Promise.all resolves, every delete having resolved.
ActivateDone ==
  /\ worker = "activating"
  /\ deleting = {}
  /\ worker' = "activated"
  /\ Silent
  /\ UNCHANGED <<caches, existing, deleting, skippedWaiting, fetching>>

\* fetch: caches.match(event.request) resolves: the cached response is the
\* answer, or the request goes to the network.
FetchEvent(request) ==
  /\ worker = "activated"
  /\ request \notin fetching
  /\ LET cached == Match(caches, request.url)
     IN IF cached # NoResponse
        THEN /\ response' = Answer(request, cached, "unused")
             /\ UNCHANGED fetching
        ELSE /\ fetching' = fetching \cup {request}
             /\ response' = NoAnswer
  /\ backgroundSync' = FALSE
  /\ UNCHANGED <<worker, caches, existing, deleting, skippedWaiting>>

\* Variant: the root document stands in for every failed request.
FallbackAlways(buckets, request) == Match(buckets, "/")

\* The catch of the fetch handler: caches.match('/') for a document,
\* undefined otherwise.
Fallback(buckets, request) ==
  IF request.destination = "document" THEN Match(buckets, "/") ELSE NoResponse

\* fetch: the network answers the forwarded request, or the fetch fails.
FetchSettles(request, ok) ==
  /\ request \in fetching
  /\ fetching' = fetching \ {request}
  /\ response' = IF ok THEN Answer(request, FromNetwork(request), "ok")
                  ELSE Answer(request, Fallback(caches, request), "failed")
  /\ backgroundSync' = FALSE
  /\ UNCHANGED <<worker, caches, existing, deleting, skippedWaiting>>

\* syncOfflineEntries: a log line.
SyncOfflineEntries == UNCHANGED <<pageVars, signals>>

\* sync: with the tag 'background-sync' the handler runs syncOfflineEntries.
SyncEvent(tag) ==
  /\ worker = "activated"
  /\ backgroundSync' = (tag = "background-sync")
  /\ IF tag = "background-sync" THEN SyncOfflineEntries
     ELSE UNCHANGED <<pageVars, signals>>
  /\ response' = NoAnswer
  /\ UNCHANGED <<worker, caches, existing, deleting, skippedWaiting, fetching>>

\* ------------------------------------------------------------ the stopwatch
\* What the user may type into the prompt; "null" stands for Cancel.
Typed == {"null", "", "  ", "work", " work "}

\* String.prototype.trim on those texts.
Trim(txt) ==
  CASE txt = "  " -> ""
    [] txt = " work " -> "work"
    [] OTHER -> txt

\* One round of the dialogue: the answer to window.prompt and, should the
\* prompt be cancelled, the answer to window.confirm.
Rounds == {[txt |-> t, discard |-> d] : t \in Typed, d \in BOOLEAN}

\* The dialogues of up to MaxPrompts rounds.
Dialogues == UNION {[1..n -> Rounds] : n \in 1..MaxPrompts}

\* toHours2: Math.round((s / 3600) * 100) / 100, in hundredths of an hour.
toHours2(s) == (2 * s + 36) \div 72

\* askDescription: the loop over the rounds of the dialogue.  "null" when
\* the user discarded, the trimmed text when one was given, "asking" while
\* the loop has not returned.
RECURSIVE askDescription(_)
askDescription(dialogue) ==
  IF dialogue = <<>> THEN "asking"
  ELSE LET txt == Head(dialogue).txt
       IN IF txt = "null"
          THEN IF Head(dialogue).discard THEN "null"
               ELSE askDescription(Tail(dialogue))
          ELSE IF Trim(txt) # "" THEN Trim(txt)
               ELSE askDescription(Tail(dialogue))

\* The dialogues the loop goes through to their last round and returns.
Complete ==
  {d \in Dialogues :
     /\ askDescription(d) # "asking"
     /\ askDescription(SubSeq(d, 1, Len(d) - 1)) = "asking"}

\* What a task of the stopwatch did: op is "start", "pause", "stop", "tick",
\* "help" or "none"; for a stop, the dialogue with the user (empty when no
\* prompt was shown) and what swForm.submit() sent (submitted FALSE when it
\* was not called).
NotSubmitted == [submitted |-> FALSE, elapsed |-> 0, hours |-> 0, desc |-> ""]

SwEvent(op, dialogue, form) == [op |-> op, dialogue |-> dialogue, form |-> form]

\* The script has run: `let running = false; let secs = 0; let tickHandle =
\* null`, the listeners are attached, no timer is set.
SwInit ==
  /\ STOP_MIN_SECONDS \in 0..MaxStopMin
  /\ running = FALSE
  /\ secs = 0
  /\ tickHandle = 0
  /\ intervals = {}
  /\ handles = 0
  /\ swEvent = SwEvent("none", <<>>, NotSubmitted)

\* pause(): the values of running, tickHandle and the timers after it.
Paused(timers) ==
  IF ~running THEN [running |-> running, tickHandle |-> tickHandle, timers |-> timers]
  ELSE [running |-> FALSE, tickHandle |-> 0,
        timers |-> IF tickHandle # 0 THEN timers \ {tickHandle} ELSE timers]

\* tick, called by an interval timer that is set.
Tick(h) ==
  /\ h \in intervals
  /\ secs < MaxSecs
  /\ secs' = secs + 1
  /\ swEvent' = SwEvent("tick", <<>>, NotSubmitted)
  /\ UNCHANGED <<STOP_MIN_SECONDS, running, tickHandle, intervals, handles>>

\* Variant: every click on Start sets an interval.
StartAlways ==
  /\ handles < MaxStarts
  /\ running' = TRUE
  /\ handles' = handles + 1
  /\ tickHandle' = handles + 1
  /\ intervals' = intervals \cup {handles + 1}
  /\ swEvent' = SwEvent("start", <<>>, NotSubmitted)
  /\ UNCHANGED <<STOP_MIN_SECONDS, secs>>

\* A click on '#sw-start': start().
Start ==
  /\ running \/ handles < MaxStarts
  /\ IF running
     THEN UNCHANGED <<running, handles, tickHandle, intervals>>
     ELSE /\ running' = TRUE
          /\ handles' = handles + 1
          /\ tickHandle' = handles + 1
          /\ intervals' = intervals \cup {handles + 1}
  /\ swEvent' = SwEvent("start", <<>>, NotSubmitted)
  /\ UNCHANGED <<STOP_MIN_SECONDS, secs>>

\* A click on '#sw-pause': pause().
Pause ==
  /\ running' = Paused(intervals).running
  /\ tickHandle' = Paused(intervals).tickHandle
  /\ intervals' = Paused(intervals).timers
  /\ swEvent' = SwEvent("pause", <<>>, NotSubmitted)
  /\ UNCHANGED <<STOP_MIN_SECONDS, secs, handles>>

\* A click on '#sw-stop'.  elapsed is read, then reset() (pause, secs = 0);
\* under the threshold an alert and return.  askDescription has no await and
\* its dialogs block the event loop, so the handler resumes from its await
\* before any other task runs: the whole handler is one step.  The dialogue
\* is the user's, as far as the loop takes it.
Stop(dialogue) ==
  LET elapsed == secs
      desc == askDescription(dialogue)
  IN /\ running' = Paused(intervals).running
     /\ tickHandle' = Paused(intervals).tickHandle
     /\ intervals' = Paused(intervals).timers
     /\ secs' = 0
     /\ IF elapsed < STOP_MIN_SECONDS
        THEN swEvent' = SwEvent("stop", <<>>, NotSubmitted)
        ELSE /\ dialogue \in Complete
             /\ swEvent' = SwEvent("stop", dialogue,
                   IF desc = "null" THEN NotSubmitted
                   ELSE [submitted |-> TRUE, elapsed |-> elapsed,
                         hours |-> toHours2(elapsed), desc |-> desc])
     /\ UNCHANGED <<STOP_MIN_SECONDS, handles>>

\* A click on '#sw-help': an alert with the help text.
Help ==
  /\ swEvent' = SwEvent("help", <<>>, NotSubmitted)
  /\ UNCHANGED <<STOP_MIN_SECONDS, running, secs, tickHandle, intervals, handles>>

\* ------------------------------------------------------ specifications
\* The stopwatch as the script left it, with the largest threshold.
SwIdle == SwInit /\ STOP_MIN_SECONDS = MaxStopMin

\* The page starts in a browser with no bucket yet; it has handled no
\* signal, and its stopwatch has not been touched.
Init == PageInit /\ WorkerInit /\ caches = <<>> /\ signals = <<>> /\ SwIdle

\* A task of the offline script is no task of the worker nor of the
\* stopwatch.
PageTask == UNCHANGED <<workerVars, swVars>>

\* A task the signal history does not record.
Unlogged == UNCHANGED signals

\* A task of the worker is no task of the page.
WorkerTask == UNCHANGED <<pageVars, signals, swVars>>

\* A task of the stopwatch is no task of the offline script nor of the
\* worker.
SwTask == UNCHANGED <<pageVars, workerVars, signals>>

\* The behaviours of the queue and its drain passes: the forms hold numbers
\* and the clock has moved on between two saves.  The removal timers of the
\* indicators stay pending (nothing of the queue reads the document), and the
\* worker, which never touches the queue, is left out.
Next ==
  \/ PageLoad /\ PageTask /\ Unlogged
  \/ HandleOnline /\ PageTask /\ Unlogged
  \/ HandleOffline /\ PageTask /\ Unlogged
  \/ ManualSync /\ PageTask /\ Unlogged
  \/ \E text \in NumericHours : SubmitOnline(text) /\ PageTask /\ Unlogged
  \/ \E text \in NumericHours :
       SubmitOffline(text, now + 1) /\ PageTask /\ Unlogged
  \/ \E f \in forms, outcome \in Outcomes :
       FormResponse(f, outcome, now + 1) /\ PageTask /\ Unlogged
  \/ \E p \in Passes, outcome \in Outcomes :
       Respond(p, outcome) /\ PageTask /\ Unlogged

Spec == Init /\ [][Next]_vars

\* The behaviours of the stored data: the forms hold any text and the clock
\* may read the same at two saves.  Entries are queued while the page is
\* offline and drained by the 'online' event; the page is offline again
\* after a later load only.
DataNext ==
  \/ PageLoad /\ PageTask /\ Unlogged
  \/ HandleOnline /\ PageTask /\ Unlogged
  \/ \E text \in FormHours, t \in now..MaxClock :
       SubmitOffline(text, t) /\ PageTask /\ Unlogged
  \/ \E p \in Passes, outcome \in Outcomes :
       Respond(p, outcome) /\ PageTask /\ Unlogged

DataSpec == Init /\ [][DataNext]_vars

\* The latest MaxSignals signals, the new one last.
Logged(log, signal, drains) ==
  LET all == Append(log, [signal |-> signal, drains |-> drains])
  IN IF Len(all) > MaxSignals THEN Tail(all) ELSE all

\* The handler of the signal has run: the number of calls of
\* syncPendingEntries it made is read off the task's record.
LogSignal(signal) ==
  signals' = Logged(signals, signal, IF event'.op = "sync" THEN 1 ELSE 0)

\* The behaviours of the document: the connectivity signals, the drain
\* passes they and the manual-sync button start, and the removal timers of
\* the two indicators.  Entries are queued while the page is offline.
UiNext ==
  \/ PageLoad /\ signals' = <<>> /\ PageTask
  \/ HandleOnline /\ LogSignal("online") /\ PageTask
  \/ HandleOffline /\ LogSignal("offline") /\ PageTask
  \/ ManualSync /\ PageTask /\ Unlogged
  \/ \E text \in NumericHours :
       /\ submitted < MaxShown
       /\ SubmitOffline(text, now + 1) /\ PageTask /\ Unlogged
  \/ \E p \in Passes, outcome \in Outcomes :
       Respond(p, outcome) /\ PageTask /\ Unlogged
  \/ OfflineIndicatorTimer /\ PageTask /\ Unlogged
  \/ SyncIndicatorTimer /\ PageTask /\ Unlogged

UiSpec == Init /\ [][UiNext]_vars

\* The worker starts with any of the buckets, beside a page that is offline
\* and has nothing stored.
WorkerStart ==
  /\ PageInit /\ ~isOnline /\ storage = Stored("absent") /\ path = "/entry"
  /\ ~uncaught
  /\ WorkerInit
  /\ signals = <<>>
  /\ SwIdle

\* The behaviours of the worker: its lifecycle events, the requests it
\* intercepts and the sync events, while the offline page queues entries.
WorkerNext ==
  \/ InstallOpen /\ WorkerTask
  \/ \E ok \in BOOLEAN : InstallAddAll(ok) /\ WorkerTask
  \/ ActivateKeys /\ WorkerTask
  \/ \E name \in deleting : ActivateDelete(name) /\ WorkerTask
  \/ ActivateDone /\ WorkerTask
  \/ \E request \in Requests : FetchEvent(request) /\ WorkerTask
  \/ \E request \in Requests, ok \in BOOLEAN :
       FetchSettles(request, ok) /\ WorkerTask
  \/ \E tag \in Tags : SyncEvent(tag) /\ UNCHANGED swVars
  \/ \E text \in NumericHours :
       /\ SubmitOffline(text, now + 1) /\ Unlogged /\ Silent
       /\ UNCHANGED <<worker, caches, existing, deleting, skippedWaiting,
                      fetching, swVars>>

WorkerSpec == WorkerStart /\ [][WorkerNext]_vars

\* The behaviours of one script context, from its load on: the connectivity
\* signals, the manual-sync button, the entries queued while the page is
\* offline, and the drain passes.
LiveNext ==
  \/ HandleOnline /\ PageTask /\ Unlogged
  \/ HandleOffline /\ PageTask /\ Unlogged
  \/ ManualSync /\ PageTask /\ Unlogged
  \/ \E text \in NumericHours :
       SubmitOffline(text, now + 1) /\ PageTask /\ Unlogged
  \/ \E p \in Passes, outcome \in Outcomes :
       Respond(p, outcome) /\ PageTask /\ Unlogged

\* Every request fetch has issued settles: the promise a pass awaits is
\* resolved or rejected, and the event loop then resumes the pass.
Settles ==
  \A p \in Passes :
    WF_vars(\E outcome \in Outcomes : Respond(p, outcome) /\ PageTask /\ Unlogged)

LiveSpec == Init /\ [][LiveNext]_vars /\ Settles

\* The stopwatch starts with any threshold, on a page that is online with
\* nothing stored.
SwStart ==
  /\ PageInit /\ isOnline /\ storage = Stored("absent") /\ path = "/entry"
  /\ ~uncaught
  /\ WorkerInit /\ caches = <<>>
  /\ signals = <<>>
  /\ SwInit

\* The behaviours of the stopwatch: the clicks on its four buttons, with the
\* user's answers to the dialogs of a Stop, and the ticks of its timers.
SwNext ==
  \/ Start /\ SwTask
  \/ Pause /\ SwTask
  \/ \E dialogue \in Complete : Stop(dialogue) /\ SwTask
  \/ Help /\ SwTask
  \/ \E h \in intervals : Tick(h) /\ SwTask

SwSpec == SwStart /\ [][SwNext]_vars

\* ------------------------------------------------------------ properties
\* The entries of the stored queue, by the form content they carry.
StoredKeys == KeysOf(storage.items)

\* The entries of the in-memory queue.
QueueKeys ==
  IF pendingEntries.kind = "array" THEN heap[pendingEntries.ref] ELSE <<>>

\* C1: however drain calls interleave, the save endpoint accepts at most one
\* POST per pending entry.
C1_AcceptedAtMostOnce == \A k \in Keys : accepted[k] <= 1

\* C2: once the endpoint has answered a POST for an entry with a 2xx, no
\* later drain issues another POST for that entry.
C2_NoResubmission == lateRequest = {}

\* C3: every entry ever appended is still in the stored queue or was
\* accepted exactly once.
C3_QueuedOrAcceptedOnce ==
  \A k \in appended : k \in Range(StoredKeys) \/ accepted[k] = 1

\* C4: when a request of a pass fails with a transport error the pass ends
\* without a request for a later entry, and the queue it stores consists of
\* exactly the entries of the queue that the endpoint has not accepted, in
\* their order.
C4_AbortSemantics ==
  [][(event'.op = "respond" /\ event'.outcome = "neterr") =>
       LET p == event'.pass
           queue == heap[pendingEntries.ref]
       IN /\ pass'[p].pc = "idle"
          /\ pass'[p].requested = <<>>
          /\ storage'.kind = "array"
          /\ KeysOf(storage'.items)
               = SelectSeq(queue, LAMBDA k : accepted[k] = 0)
    ]_vars

\* C5: an answer that is no 2xx leaves the entry pending and does not stop
\* the pass: the pass requests the next entry it has not yet attempted, and
\* when it ends the queue it stores consists of exactly the entries the
\* endpoint has not accepted.
C5_PartialRejection ==
  [][(event'.op = "respond" /\ event'.outcome = "rejected") =>
       LET p == event'.pass
           a == heap[pass[p].arr]
           later == {j \in (pass[p].idx + 1)..Len(a) : ~obj[a[j]].synced}
           queue == heap[pendingEntries.ref]
       IN /\ event'.key \in Range(KeysOf(storage'.items))
          /\ IF later = {}
             THEN /\ pass'[p].pc = "idle"
                  /\ KeysOf(storage'.items)
                       = SelectSeq(queue, LAMBDA k : accepted[k] = 0)
             ELSE /\ pass'[p].pc = "await"
                  /\ pass'[p].idx \in later
                  /\ \A j \in later : pass'[p].idx <= j
    ]_vars

\* C6: a pass issues its requests in the order of the queue it iterates, one
\* at a time: the entry in flight is the last it requested, and every entry
\* before it was requested earlier by this pass or is marked synced.
C6_FifoOrder ==
  \A p \in Running :
    LET a == heap[pass[p].arr]
        r == pass[p].requested
        pos(k) == CHOOSE j \in 1..Len(a) : a[j] = k
    IN /\ Len(r) >= 1
       /\ r[Len(r)] = a[pass[p].idx]
       /\ \A m \in 1..Len(r) : r[m] \in Range(a)
       /\ \A m, n \in 1..Len(r) : m < n => pos(r[m]) < pos(r[n])
       /\ \A j \in 1..(pass[p].idx - 1) :
            a[j] \in Range(r) \/ obj[a[j]].synced

\* C6's case: a pass over [1, 2, 3] whose requests for 1 and 2 succeeded has
\* requested 1, 2, 3 in this order.
C6_Witness ==
  \E p \in Running :
    /\ heap[pass[p].arr] = <<1, 2, 3>>
    /\ pass[p].requested = <<1, 2, 3>>
    /\ pass[p].successfulSyncs = <<1, 2>>

\* C7: the stored queue never holds an entry whose synced flag is true.
C7_NoSyncedStored == \A i \in DOMAIN storage.items : ~storage.items[i].synced

\* C8: the entries of the queue have pairwise distinct ids.
C8_UniqueIds ==
  \A i, j \in DOMAIN QueueKeys :
    i # j => obj[QueueKeys[i]].id # obj[QueueKeys[j]].id

\* C9: a load gives back the queue that was stored: the same entries with
\* the same field values in the same order.
C9_RoundTrip ==
  (event.op = "load" /\ storage.kind = "array") =>
    /\ pendingEntries.kind = "array"
    /\ Entries(QueueKeys, obj) = persisted

\* C10: whenever the stored value is no serialized queue the in-memory queue
\* is an empty array, and no operation has raised an error.
C10_CorruptRecovery ==
  storage.kind # "array" =>
    /\ pendingEntries.kind = "array"
    /\ QueueKeys = <<>>
    /\ ~uncaught

\* C11: once the activate handler has completed, every bucket that existed
\* before under a name other than CACHE_NAME is deleted, and the bucket
\* named CACHE_NAME is still there.
C11_CacheVersioning ==
  worker = "activated" =>
    \A n \in existing :
      /\ n # CACHE_NAME => n \notin Names(caches)
      /\ n = CACHE_NAME => n \in Names(caches)

\* C11's case: an old bucket and the current one existed; after activate
\* only the current one is left.
C11_Witness ==
  /\ worker = "activated"
  /\ existing = {OldName, CACHE_NAME}
  /\ Names(caches) = {CACHE_NAME}

\* C12: when the sync event with the tag 'background-sync' is handled and
\* the queue holds pending entries, the handler drains the queue as
\* syncPendingEntries does: a POST for a pending entry is issued.
C12_BackgroundSyncDrains ==
  [][(backgroundSync' /\ StoredKeys # <<>>) => Running' # {}]_vars

\* C13: a request goes to the network only when no bucket holds a response
\* for it; a response given without the network is the cached one for the
\* request; when the network fetch fails the response is the cached one for
\* '/' if the request's destination is a document, and none otherwise.
C13_Interception ==
  [][/\ \A r \in fetching' \ fetching :
          /\ Match(caches, r.url) = NoResponse
          /\ response' = NoAnswer
     /\ (response'.request # "none" /\ response'.network = "unused") =>
          /\ response'.value.kind = "cached"
          /\ response'.value.url = response'.request
          /\ \E i \in DOMAIN caches :
               /\ caches[i].name = response'.value.bucket
               /\ response'.request \in caches[i].urls
          /\ fetching' = fetching
     /\ \A r \in fetching \ fetching' :
          /\ response'.request = r.url
          /\ response'.network \in {"ok", "failed"}
          /\ response'.network = "ok" => response'.value.kind = "network"
          /\ (response'.network = "failed" /\ r.destination = "document") =>
               /\ response'.value.kind = "cached"
               /\ response'.value.url = "/"
          /\ (response'.network = "failed" /\ r.destination # "document") =>
               response'.value = NoResponse
    ]_vars

\* C13's case: the fetch of a document no bucket holds failed and the cached
\* root document was returned.
C13_Witness ==
  /\ response.request = "/reports"
  /\ response.network = "failed"
  /\ response.value.kind = "cached" /\ response.value.url = "/"

\* C14: at most one sync POST to the save endpoint is in flight.
C14_OneRequestInFlight == Cardinality(Running) <= 1

\* C15: whenever the connectivity state is OFFLINE the offline banner is
\* shown.
C15_OfflineBannerShown == ~isOnline => Shown(offlineIndicator)

\* C16: the handler of an 'online' signal leaves the state ONLINE and the
\* offline indicator hidden and has called syncPendingEntries exactly once;
\* the handler of an 'offline' signal leaves the state OFFLINE and has not
\* called it; the state is that of the most recent signal.
C16_SignalHandling ==
  [][signals' # <<>> =>
       LET last == signals'[Len(signals')]
       IN /\ isOnline' <=> last.signal = "online"
          /\ signals' # signals =>
               /\ last.signal = "online" =>
                    /\ ~Shown(offlineIndicator')
                    /\ last.drains = 1
                    /\ event'.op = "sync"
               /\ last.signal = "offline" => last.drains = 0
    ]_vars

\* C16's case: the signals online, offline, online were handled, with two
\* calls of syncPendingEntries, each on a queue that was not empty.
C16_Witness ==
  /\ Len(signals) = 3
  /\ signals[1] = [signal |-> "online", drains |-> 1]
  /\ signals[2] = [signal |-> "offline", drains |-> 0]
  /\ signals[3] = [signal |-> "online", drains |-> 1]
  /\ Cardinality(Running) = 2
  /\ isOnline

\* C17: a submission ends either accepted by the endpoint with no entry
\* queued, or with exactly one new entry, not synced, at the end of the
\* queue: whenever the submit handler has finished (offline, or on the
\* outcome of its POST) one of the two has happened.
C17_SubmissionOutcome ==
  [][/\ event'.op = "save" =>
          /\ event'.key \notin appended
          /\ appended' = appended \cup {event'.key}
          /\ QueueKeys' = Append(QueueKeys, event'.key)
          /\ ~obj'[event'.key].synced
     /\ (event'.op = "other" /\ forms' # forms /\ forms' \subseteq forms) =>
          /\ appended' = appended
          /\ QueueKeys' = QueueKeys
          /\ storage' = storage
    ]_vars

\* C18: when saveOfflineEntry returns, the new entry is the last of the
\* in-memory queue, the entries queued before are unchanged and in the same
\* order before it, and the collection just written to storage is the whole
\* in-memory queue.
C18_AppendAndPersist ==
  [][(event'.op = "save" /\ pendingEntries.kind = "array") =>
       /\ pendingEntries' = pendingEntries
       /\ QueueKeys' = Append(QueueKeys, event'.key)
       /\ \A k \in Range(QueueKeys) : obj'[k] = obj[k]
       /\ persisted' = Entries(QueueKeys', obj')
       /\ KeysOf(storage'.items) = QueueKeys'
       /\ \A i \in DOMAIN storage'.items :
            /\ storage'.items[i].id = obj'[QueueKeys'[i]].id
            /\ storage'.items[i].timestamp = obj'[QueueKeys'[i]].timestamp
            /\ storage'.items[i].synced = obj'[QueueKeys'[i]].synced
    ]_vars

\* C18's case: an entry was saved behind two others while a pass (which had
\* marked the first synced) was suspended; all three are stored in order.
C18_Witness ==
  /\ event.op = "save" /\ event.key = 3
  /\ QueueKeys = <<1, 2, 3>>
  /\ StoredKeys = <<1, 2, 3>>
  /\ obj[1].synced
  /\ Running # {}

\* C19: a call of syncPendingEntries on an empty queue issues no request,
\* writes nothing to storage, shows neither the sync indicator nor a toast
\* and schedules no reload.
C19_EmptyDrainNoOp ==
  [][(event'.op = "sync" /\ pendingEntries.kind = "array" /\ QueueKeys = <<>>) =>
       /\ pass' = pass
       /\ lateRequest' = lateRequest /\ accepted' = accepted
       /\ storage' = storage /\ persisted' = persisted
       /\ pendingEntries' = pendingEntries /\ heap' = heap /\ obj' = obj
       /\ syncIndicator' = syncIndicator
       /\ toast' = NoToast
       /\ ~reload'
       /\ uncaught' = uncaught
    ]_vars

\* C19's case: the 'online' handler called syncPendingEntries on the empty
\* queue of a page that has never stored anything.
C19_Witness ==
  /\ event.op = "sync"
  /\ isOnline
  /\ pendingEntries.kind = "array" /\ QueueKeys = <<>>
  /\ storage = Stored("absent")
  /\ syncIndicator = Absent

\* C20: the sync banner is shown as long as a drain pass is running, and it
\* is hidden when a pass has ended (completed or aborted) and none is
\* running any more.
C20_SyncBanner ==
  [][/\ Running' # {} => Shown(syncIndicator')
     /\ (event'.op = "respond" /\ pass'[event'.pass].pc = "idle"
           /\ Running' = {}) => ~Shown(syncIndicator')
    ]_vars

\* C21: a pass that ends shows the success toast exactly when it received
\* at least one 2xx answer, with the number of its 2xx answers as the count,
\* and schedules the reload only then and only on '/entries'; a pass that ends
\* without a 2xx answer (all rejected, or aborted before one) shows no toast
\* and schedules no reload; no other task shows the success toast or
\* schedules the reload.
C21_ToastAndReload ==
  [][LET ended == {p \in Passes : pass[p].pc = "await" /\ pass'[p].pc = "idle"
                                    /\ event'.op = "respond" /\ event'.pass = p}
     IN /\ \A p \in ended :
             LET n == pass[p].accepts
                        + (IF event'.outcome = "ok" THEN 1 ELSE 0)
             IN /\ n > 0 => toast' = SyncToast(n)
                /\ n = 0 => toast' = NoToast /\ ~reload'
                /\ reload' => n > 0 /\ path = "/entries"
        /\ ended = {} => toast'.kind # "success" /\ ~reload'
    ]_vars

\* C21's case: a pass on '/entries' had two entries accepted and the third
\* rejected: the toast counts 2 and the reload is scheduled.
C21_Witness ==
  /\ event.op = "respond" /\ event.outcome = "rejected"
  /\ toast = SyncToast(2)
  /\ reload
  /\ path = "/entries"
  /\ StoredKeys = <<3>>

\* The urls the bucket of the name holds; none when there is no such bucket.
Holds(buckets, name) ==
  UNION {buckets[i].urls : i \in {j \in DOMAIN buckets : buckets[j].name = name}}

\* C22: whenever skipWaiting has been invoked the bucket named CACHE_NAME
\* holds every url of urlsToCache; the install phase ends either with all of
\* them stored and skipWaiting invoked, or failed, with nothing stored by it
\* and skipWaiting not invoked.
C22_InstallThenSkipWaiting ==
  [][/\ skippedWaiting' => urlsToCache \subseteq Holds(caches', CACHE_NAME)
     /\ skippedWaiting' # skippedWaiting => worker = "installing"
     /\ (worker = "installing" /\ worker' # "installing") =>
          \/ /\ worker' = "installed"
             /\ skippedWaiting'
             /\ urlsToCache \subseteq Holds(caches', CACHE_NAME)
          \/ /\ worker' = "redundant"
             /\ ~skippedWaiting'
             /\ caches' = caches
     /\ worker' = "redundant" => ~skippedWaiting'
    ]_vars

\* C22's case: the install found a bucket of the current name that held
\* another url only, stored the five urls of the list in it and invoked
\* skipWaiting.
C22_Witness ==
  /\ worker = "installed"
  /\ skippedWaiting
  /\ caches = <<[name |-> CACHE_NAME, urls |-> urlsToCache \cup {"/reports"}]>>

\* C23: the final filter-and-persist step of a pass drops no entry that was
\* appended and not accepted: when a pass has ended, every entry appended so
\* far (those appended while the pass was suspended among them) is in the
\* in-memory queue and in the stored queue, or the endpoint has accepted it.
C23_AppendDuringPassKept ==
  [][(event'.op = "respond" /\ pass'[event'.pass].pc = "idle") =>
       \A k \in appended' :
         \/ accepted'[k] >= 1
         \/ /\ k \in Range(QueueKeys')
            /\ k \in Range(KeysOf(storage'.items))
    ]_vars

\* C23's case: two passes overlapped on a queue holding entry 1; the first
\* ended and replaced the queue array, then entry 2 was appended, then the
\* second (whose array never held entry 2) had entry 1 accepted and ended:
\* entry 2, never accepted, is stored.
C23_Witness ==
  /\ event.op = "respond" /\ event.key = 1 /\ event.outcome = "ok"
  /\ Running = {}
  /\ accepted[1] = 2
  /\ 2 \in appended /\ accepted[2] = 0
  /\ StoredKeys = <<2>> /\ QueueKeys = <<2>>

\* C24: a pass requests no entry twice and requests no entry that is marked
\* synced when its loop reaches it (it passes over those); and, every
\* request settling, a pass that awaits a response ends: it filters the
\* queue and stores the result.
C24_PassTerminates ==
  /\ [][\A p \in Passes :
          pass'[p].requested # pass[p].requested /\ pass'[p].pc = "await" =>
            LET a == heap'[pass'[p].arr]
                k == a[pass'[p].idx]
                from == IF pass[p].pc = "await" THEN pass[p].idx + 1 ELSE 1
            IN /\ pass'[p].requested = Append(pass[p].requested, k)
               /\ k \notin Range(pass[p].requested)
               /\ ~obj'[k].synced
               /\ \A j \in from..(pass'[p].idx - 1) : obj'[a[j]].synced
       ]_vars
  /\ \A p \in Passes :
       (pass[p].pc = "await") ~>
         /\ pass[p].pc = "idle"
         /\ event.op = "respond" /\ event.pass = p
         /\ storage = Stringify(Entries(QueueKeys, obj))
         /\ \A i \in DOMAIN QueueKeys : ~obj[QueueKeys[i]].synced

\* C24's case: a pass over [1, 2, 3] had its request of entry 1 rejected,
\* found entry 2 marked synced by an overlapping pass and passed over it,
\* and now awaits the response for entry 3.
C24_Witness ==
  \E p \in Running :
    /\ heap[pass[p].arr] = <<1, 2, 3>>
    /\ pass[p].requested = <<1, 3>>
    /\ pass[p].idx = 3
    /\ obj[2].synced

\* The user supplied a description that is not blank: the dialogue ended
\* with a text that has more than white space.
Supplied(dialogue) ==
  /\ dialogue # <<>>
  /\ dialogue[Len(dialogue)].txt \notin {"null", "", "  "}

\* C25: a click on Stop leaves the stopwatch not running, with 0 seconds and
\* no interval timer set, and submits the form exactly when the seconds at
\* the click were at least STOP_MIN_SECONDS and the user supplied a
\* description that is not blank; a click on Start while running sets no
\* interval (never is more than one set); the seconds advance only while
\* running.
C25_Stopwatch ==
  [][/\ swEvent'.op = "stop" =>
          /\ ~running' /\ secs' = 0
          /\ intervals' = {} /\ tickHandle' = 0
          /\ swEvent'.form.submitted <=>
               (secs >= STOP_MIN_SECONDS /\ Supplied(swEvent'.dialogue))
          /\ swEvent'.form.submitted => swEvent'.form.elapsed = secs
     /\ swEvent'.op # "stop" => ~swEvent'.form.submitted
     /\ (swEvent'.op = "start" /\ running) => intervals' = intervals
     /\ Cardinality(intervals') <= 1
     /\ secs' > secs => running /\ running' /\ secs' = secs + 1
    ]_vars

\* C25's case: the stopwatch was started, paused and started again, ran to
\* the threshold of 2 seconds and was stopped; the user first sent a blank
\* description, then a text, and the form was submitted with 2 seconds.
C25_Witness ==
  /\ swEvent.op = "stop"
  /\ STOP_MIN_SECONDS = 2
  /\ handles = 2
  /\ Len(swEvent.dialogue) = 2
  /\ swEvent.dialogue[1].txt = "  "
  /\ swEvent.form = [submitted |-> TRUE, elapsed |-> 2, hours |-> 0,
                      desc |-> "work"]
  /\ ~running /\ secs = 0 /\ intervals = {}

====
